---- MODULE Spec2Model ----
(***************************************************************************)
(* Hex memory view plugin (src/plugins/hex_memory/hex_memory_plugin.cpp).  *)
(*                                                                         *)
(* The plugin instance (HexMemoryData) is the record user_data.  The host  *)
(* calls update once per frame: it clears requestData, drains the inbound  *)
(* events, runs drawUI (which lets the UI toolkit rewrite the two text     *)
(* fields and re-parses them) and writes a GetMemory event when            *)
(* requestData is set.  loadState overwrites the two text fields from a    *)
(* session blob.                                                           *)
(***************************************************************************)
EXTENDS Integers, Sequences, FiniteSets, TLC

\* ---------------------------------------------------------------- bounds

\* Size of each of the two buffers.  The plugin allocates 128 * 1024 bytes
\* for each (lines 37, 40); the model keeps the structure and scales it.
Capacity == 2

\* Most events the host delivers in one update cycle.
MaxBatch == 2

\* ------------------------------------------------------ program constants

\* The bytes createInstance allocates for each buffer, 128 * 1024: the number
\* a requested byte count is compared with (Capacity scales the contents).
AllocatedBytes == 131072

FillByte == 255
DefaultSize == 1024
DefaultAddressSize == 4

\* ------------------------------------------------------------------ texts

\* A text field is a sequence of one-character strings.
DefaultStartAddress == <<"0", "x", "0", "0", "0", "0", "0", "0", "0", "0">>
DefaultSizeText == <<"1", "0", "2", "4">>

\* The texts the UI toolkit or a session blob may put into a field: the two
\* defaults, a plain hexadecimal number, the empty text and a text that is no
\* number.  They hold no sign and no leading white space.
Texts == {DefaultStartAddress, DefaultSizeText, <<"1", "0">>, <<>>, <<"z", "z">>}

\* A size text that parses to one byte more than a buffer holds (0x20001).
LargeSizeText == <<"2", "0", "0", "0", "1">>

HexDigits == {"0", "1", "2", "3", "4", "5", "6", "7", "8", "9",
              "a", "b", "c", "d", "e", "f", "A", "B", "C", "D", "E", "F"}

DigitValue(c) ==
    CASE c = "0" -> 0 [] c = "1" -> 1 [] c = "2" -> 2 [] c = "3" -> 3
      [] c = "4" -> 4 [] c = "5" -> 5 [] c = "6" -> 6 [] c = "7" -> 7
      [] c = "8" -> 8 [] c = "9" -> 9
      [] c \in {"a", "A"} -> 10 [] c \in {"b", "B"} -> 11
      [] c \in {"c", "C"} -> 12 [] c \in {"d", "D"} -> 13
      [] c \in {"e", "E"} -> 14 [] c \in {"f", "F"} -> 15

\* Accumulates the hexadecimal digits of text from position i on, stopping at
\* the first character that is no digit.
RECURSIVE HexDigitsFrom(_, _, _)
HexDigitsFrom(text, i, acc) ==
    IF i > Len(text) \/ text[i] \notin HexDigits
    THEN acc
    ELSE HexDigitsFrom(text, i + 1, acc * 16 + DigitValue(text[i]))

\* strtol(text, 0, 16): an optional "0x" prefix followed by a digit is
\* skipped, the digits are converted, and a text without digits yields 0.
strtol16(text) ==
    IF /\ Len(text) >= 3
       /\ text[1] = "0"
       /\ text[2] \in {"x", "X"}
       /\ text[3] \in HexDigits
    THEN HexDigitsFrom(text, 3, 0)
    ELSE HexDigitsFrom(text, 1, 0)

\* The digits of n in lower-case hexadecimal, as the x conversion prints them.
HexChar(v) ==
    CASE v = 0 -> "0" [] v = 1 -> "1" [] v = 2 -> "2" [] v = 3 -> "3"
      [] v = 4 -> "4" [] v = 5 -> "5" [] v = 6 -> "6" [] v = 7 -> "7"
      [] v = 8 -> "8" [] v = 9 -> "9" [] v = 10 -> "a" [] v = 11 -> "b"
      [] v = 12 -> "c" [] v = 13 -> "d" [] v = 14 -> "e" [] v = 15 -> "f"

RECURSIVE HexText(_)
HexText(n) ==
    IF n < 16 THEN <<HexChar(n)>>
    ELSE Append(HexText(n \div 16), HexChar(n % 16))

\* A conversion with a minimum field width: text shorter than width is
\* filled on the left with the character c.
Pad(text, width, c) ==
    IF Len(text) >= width THEN text
    ELSE [i \in 1..(width - Len(text)) |-> c] \o text

\* getAddressLine: "0x%02x" of the low byte, "0x%04x" of the low 16 bits,
\* "0x%08x" of the low 32 bits (every address of this model is below 2^31,
\* so that cast keeps it), and "0x%16llx", whose field is filled with spaces.
\* Any other size leaves the zeroed text untouched.
getAddressLine(address, adressSize) ==
    CASE adressSize = 1 -> <<"0", "x">> \o Pad(HexText(address % 256), 2, "0")
      [] adressSize = 2 -> <<"0", "x">> \o Pad(HexText(address % 65536), 4, "0")
      [] adressSize = 4 -> <<"0", "x">> \o Pad(HexText(address), 8, "0")
      [] adressSize = 8 -> <<"0", "x">> \o Pad(HexText(address), 16, " ")
      [] OTHER -> <<>>

\* Address texts of the formatting specification: every string of one to
\* MaxDigits of these digits, bare and behind "0x".
MaxDigits == 3

FormatDigits == {"0", "1", "a", "f"}

HexStrings ==
    LET bare == UNION {[1..n -> FormatDigits] : n \in 1..MaxDigits}
    IN  bare \cup {<<"0", "x">> \o t : t \in bare}

AddressSizes == {1, 2, 4, 8}

\* ----------------------------------------------------------------- events

Bytes == {16, FillByte}

Buffers == [1..Capacity -> Bytes]

\* Payloads of a data field: every length up to one more than the buffers hold.
Payloads == UNION {[1..n -> Bytes] : n \in 0..(Capacity + 1)}

\* A few payloads: an empty one, one byte, and one longer than the buffers.
FewPayloads == {<<>>, <<16>>, [i \in 1..(Capacity + 1) |-> 16]}

EventAddresses == {0, 16}

\* An inbound event as the reader presents it: its type and the fields the
\* handlers look up.  A field that is not in the event has its has* flag FALSE.
SetMemoryEvents(payloads) ==
    {[type |-> "SetMemory", hasAddress |-> TRUE, address |-> a,
      hasData |-> TRUE, data |-> p] : a \in EventAddresses, p \in payloads}
    \cup {[type |-> "SetMemory", hasAddress |-> TRUE, address |-> a,
           hasData |-> FALSE, data |-> <<>>] : a \in EventAddresses}
    \cup {[type |-> "SetMemory", hasAddress |-> FALSE, address |-> 0,
           hasData |-> TRUE, data |-> p] : p \in payloads}

SetExceptionLocationEvents ==
    {[type |-> "SetExceptionLocation", hasAddress |-> TRUE, address |-> a,
      hasData |-> FALSE, data |-> <<>>] : a \in EventAddresses}
    \cup {[type |-> "SetExceptionLocation", hasAddress |-> FALSE, address |-> 0,
           hasData |-> FALSE, data |-> <<>>]}

\* Any other event type of the host (the switch of update has no case for it).
OtherEvents ==
    {[type |-> "Other", hasAddress |-> FALSE, address |-> 0,
      hasData |-> FALSE, data |-> <<>>]}

NoEvent ==
    [type |-> "None", hasAddress |-> FALSE, address |-> 0,
     hasData |-> FALSE, data |-> <<>>]

\* PDRead_find_u64(reader, &address, "address", 0) on a local set to 0 before:
\* the local keeps 0 when the field is not found.
FindAddress(ev) == IF ev.hasAddress THEN ev.address ELSE 0

GetMemory(address_start, size) ==
    [type |-> "GetMemory", address_start |-> address_start, size |-> size]

\* ------------------------------------------------------------------ state

VARIABLES
    user_data,   \* the HexMemoryData instance
    proc,        \* "running"; "crashed" or "overrun" once a copy left the buffers
    pc,          \* "idle" between calls, "loop" inside update's event loop
    writer,      \* the outbound events written by the current (or last) update call
    nEvents,     \* events read from inEvents in the current (or last) update call
    event,       \* the event read last in the current update call
    cyc,         \* the current (or last) update call: values at entry, what it drained
    dirty,       \* the text fields were written since drawUI last parsed them
    prevMem,     \* the SetMemory event whose data was copied last, or NoEvent
    lastLoad,    \* fields the last loadState call found in its blob, since the last update
    session,     \* the blob the last saveState call wrote, and the texts it wrote it from
    fmt          \* drawData's address and the text of its first address line

vars == <<user_data, proc, pc, writer, nEvents, event, cyc, dirty, prevMem, lastLoad,
          session, fmt>>

NoAddress == -1

NoLoad == -1

\* No saveState call has run.
NoSession == [saved |-> FALSE, blob |-> <<>>, startAddress |-> <<>>, sizeText |-> <<>>]

\* drawData has not formatted an address line.
NoFormat == [line |-> "none", address |-> 0, addressText |-> <<>>, again |-> 0]

\* createInstance
createInstance ==
    [data |-> [i \in 1..Capacity |-> FillByte],
     oldData |-> [i \in 1..Capacity |-> FillByte],
     dataSize |-> 0,
     addressSize |-> DefaultAddressSize,
     startAddress |-> DefaultStartAddress,
     sizeText |-> DefaultSizeText,
     requestData |-> FALSE,
     sa |-> 0,
     size |-> DefaultSize,
     exceptionLocation |-> 0]

Init ==
    /\ user_data = createInstance
    /\ proc = "running"
    /\ pc = "idle"
    /\ writer = <<>>
    /\ nEvents = 0
    /\ event = NoEvent
    /\ cyc = [ran |-> FALSE, first |-> FALSE, sa0 |-> 0, size0 |-> DefaultSize,
              textChanged |-> FALSE, newException |-> FALSE,
              memAddress |-> NoAddress,
              loaded |-> FALSE, edited |-> FALSE, seen |-> {}]
    /\ dirty = TRUE
    /\ prevMem = NoEvent
    /\ lastLoad = NoLoad
    /\ session = NoSession
    /\ fmt = NoFormat

\* ------------------------------------------------------------- operations

\* memcpy(dst, src, n) for n within both buffers: the first n bytes of dst
\* are replaced, the others keep their value.
memcpy(dst, src, n) ==
    [i \in 1..Capacity |-> IF i <= n THEN src[i] ELSE dst[i]]

\* updateMemory with its two copies in the other order: the payload is
\* written first and the "old" data saved after it.
updateMemory_copyOrder(d, ev) ==
    LET size == Len(ev.data)
        written == memcpy(d.data, ev.data, size)
    IN  IF ~ev.hasData \/ size > Capacity
        THEN {[ud |-> d, proc |-> "running"]}
        ELSE {[ud |-> [d EXCEPT !.sa = FindAddress(ev),
                                !.data = written,
                                !.oldData = memcpy(d.oldData, written, size)],
               proc |-> "running"]}

\* updateMemory recording the event's address before it looks for the data.
updateMemory_addressFirst(d, ev) ==
    LET d1 == [d EXCEPT !.sa = FindAddress(ev)]
        size == Len(ev.data)
    IN  IF ~ev.hasData \/ size > Capacity
        THEN {[ud |-> d1, proc |-> "running"]}
        ELSE {[ud |-> [d1 EXCEPT !.oldData = memcpy(d.oldData, d.data, size),
                                 !.data = memcpy(d.data, ev.data, size)],
               proc |-> "running"]}

\* updateMemory: the set of results the call can have, each the instance
\* afterwards and the state of the process.  The size the reader reports is
\* the length of the data field and is used unchecked for both copies.  A
\* size beyond the buffers reads and writes past their end, which is
\* undefined: the process is killed with the buffers as they were, or both
\* copies go through.  Then data holds the start of the payload, written
\* last, and oldData holds whatever the overlapping copies left, the two
\* buffers being neighbours on the heap.  What the program does after that
\* is not defined and is not modelled.
updateMemory(d, ev) ==
    LET address == FindAddress(ev)
        size == Len(ev.data)
    IN  IF ~ev.hasData
        THEN {[ud |-> d, proc |-> "running"]}
        ELSE IF size <= Capacity
        THEN {[ud |-> [d EXCEPT !.sa = address,
                                !.oldData = memcpy(d.oldData, d.data, size),
                                !.data = memcpy(d.data, ev.data, size)],
               proc |-> "running"]}
        ELSE {[ud |-> [d EXCEPT !.sa = address], proc |-> "crashed"]}
             \cup {[ud |-> [d EXCEPT !.sa = address, !.oldData = o,
                                     !.data = memcpy(d.data, ev.data, Capacity)],
                    proc |-> "overrun"] : o \in Buffers}

\* updateExceptionLocation without the request: the location is recorded only.
updateExceptionLocation_noRequest(d, ev) ==
    [d EXCEPT !.exceptionLocation = FindAddress(ev)]

\* updateExceptionLocation without the comparison: every event is recorded
\* and requests data.
updateExceptionLocation_alwaysRequests(d, ev) ==
    [d EXCEPT !.requestData = TRUE, !.exceptionLocation = FindAddress(ev)]

\* updateExceptionLocation
updateExceptionLocation(d, ev) ==
    LET address == FindAddress(ev)
    IN  IF d.exceptionLocation = address
        THEN d
        ELSE [d EXCEPT !.requestData = TRUE, !.exceptionLocation = address]

\* The switch of update sending an event type it has no case for to the
\* SetExceptionLocation handler.
otherEvent_handled(d, ev) == updateExceptionLocation(d, ev)

\* The switch of update for an event type it has no case for: no handler runs.
otherEvent(d, ev) == d

\* drawUI requesting data but leaving the recorded address as it was.
drawUI_keepsAddress(d, addressText, sizeText) ==
    LET size == strtol16(sizeText)
        d1 == [d EXCEPT !.startAddress = addressText, !.sizeText = sizeText]
        d2 == IF d1.sa # strtol16(addressText)
              THEN [d1 EXCEPT !.requestData = TRUE]
              ELSE d1
    IN  IF d2.size # size
        THEN [d2 EXCEPT !.requestData = TRUE, !.size = size]
        ELSE d2

\* drawUI requesting data in every frame.
drawUI_alwaysRequests(d, addressText, sizeText) ==
    [d EXCEPT !.startAddress = addressText, !.sizeText = sizeText,
              !.requestData = TRUE,
              !.sa = strtol16(addressText), !.size = strtol16(sizeText)]

\* drawUI, up to the two comparisons: the input_text calls leave the texts
\* addressText and sizeText in the two fields (the same texts when the user
\* typed nothing), both are parsed as hexadecimal, and a parsed value that
\* differs from the recorded one is recorded and requests data.  (data is
\* never null here: createInstance writes through it.)
drawUI(d, addressText, sizeText) ==
    LET startAddress == strtol16(addressText)
        size == strtol16(sizeText)
        d1 == [d EXCEPT !.startAddress = addressText, !.sizeText = sizeText]
        d2 == IF d1.sa # startAddress
              THEN [d1 EXCEPT !.requestData = TRUE, !.sa = startAddress]
              ELSE d1
    IN  IF d2.size # size
        THEN [d2 EXCEPT !.requestData = TRUE, !.size = size]
        ELSE d2

\* The end of update asking for the address of the SetMemory event whose
\* data was copied last.
writeRequest_eventAddress(d, w) ==
    IF d.requestData
    THEN Append(w, GetMemory(IF prevMem # NoEvent THEN FindAddress(prevMem) ELSE d.sa,
                             d.size))
    ELSE w

\* The end of update: one GetMemory event when requestData is set.
writeRequest(d, w) ==
    IF d.requestData
    THEN Append(w, GetMemory(d.sa, d.size))
    ELSE w

\* The event loop writing the request itself as soon as one is flagged.
loopWrites_requestInLoop(d, w) ==
    IF d.requestData THEN Append(w, GetMemory(d.sa, d.size)) ELSE w

\* What the body of update's event loop writes to the outbound stream
\* while it handles an event, d being the instance after the handler: nothing.
loopWrites(d, w) == w

\* A session blob: the text fields written to it, in order.  A blob with
\* fewer than two fields is a truncated one.
Blobs == {<<>>} \cup {<<a>> : a \in Texts} \cup {<<a, s>> : a \in Texts, s \in Texts}

\* PDIO_read_string(loadState, dest, sizeof(dest)) for the i-th field of the
\* blob: the field's text, or dest as it was when the blob has ended.
PDIO_read_string(blob, i, dest) ==
    IF i <= Len(blob) THEN blob[i] ELSE dest

\* loadState parsing the texts it has read and recording their range.
loadState_recordsRange(d, blob) ==
    LET startAddress == PDIO_read_string(blob, 1, d.startAddress)
        sizeText == PDIO_read_string(blob, 2, d.sizeText)
    IN  [d EXCEPT !.startAddress = startAddress,
                  !.sizeText = sizeText,
                  !.sa = strtol16(startAddress),
                  !.size = strtol16(sizeText)]

\* loadState: both reads, their results ignored.
loadState(d, blob) ==
    [d EXCEPT !.startAddress = PDIO_read_string(blob, 1, d.startAddress),
              !.sizeText = PDIO_read_string(blob, 2, d.sizeText)]

\* saveState with the two writes in the other order.
saveState_sizeFirst(d) == <<d.sizeText, d.startAddress>>

\* saveState: the blob after PDIO_write_string of the address text and
\* then of the size text.
saveState(d) == <<d.startAddress, d.sizeText>>

\* ---------------------------------------------------------------- actions

Running == proc = "running"

\* update is entered: requestData is cleared.
UpdateBegin ==
    /\ pc = "idle"
    /\ Running
    /\ user_data' = [user_data EXCEPT !.requestData = FALSE]
    /\ pc' = "loop"
    /\ writer' = <<>>
    /\ nEvents' = 0
    /\ event' = NoEvent
    /\ cyc' = [ran |-> TRUE, first |-> ~cyc.ran,
               sa0 |-> user_data.sa, size0 |-> user_data.size,
               textChanged |-> FALSE, newException |-> FALSE,
               memAddress |-> NoAddress,
               loaded |-> (lastLoad # NoLoad), edited |-> FALSE, seen |-> {}]
    /\ lastLoad' = NoLoad
    /\ UNCHANGED <<fmt, proc, dirty, prevMem, session>>

\* PDRead_get_event returns a SetMemory event, one of events.
ReadSetMemory(events) ==
    /\ pc = "loop"
    /\ Running
    /\ nEvents < MaxBatch
    /\ \E ev \in events :
         \E r \in updateMemory(user_data, ev) :
            /\ user_data' = r.ud
            /\ proc' = r.proc
            /\ writer' = loopWrites(r.ud, writer)
            /\ event' = ev
            /\ prevMem' = IF ev.hasData THEN ev ELSE prevMem
            /\ cyc' = IF ev.hasData
                      THEN [cyc EXCEPT !.memAddress = FindAddress(ev)]
                      ELSE [cyc EXCEPT !.seen = @ \cup {"NoData"}]
    /\ nEvents' = nEvents + 1
    /\ UNCHANGED <<fmt, pc, dirty, lastLoad, session>>

\* PDRead_get_event returns a SetExceptionLocation event.
ReadSetExceptionLocation ==
    /\ pc = "loop"
    /\ Running
    /\ nEvents < MaxBatch
    /\ \E ev \in SetExceptionLocationEvents :
         /\ user_data' = updateExceptionLocation(user_data, ev)
         /\ writer' = loopWrites(user_data', writer)
         /\ event' = ev
         /\ cyc' = IF FindAddress(ev) # user_data.exceptionLocation
                   THEN [cyc EXCEPT !.newException = TRUE]
                   ELSE [cyc EXCEPT !.seen = @ \cup {"SameException"}]
    /\ nEvents' = nEvents + 1
    /\ UNCHANGED <<fmt, proc, pc, dirty, prevMem, lastLoad, session>>

\* PDRead_get_event returns an event of another type.
ReadOtherEvent ==
    /\ pc = "loop"
    /\ Running
    /\ nEvents < MaxBatch
    /\ \E ev \in OtherEvents :
         /\ user_data' = otherEvent(user_data, ev)
         /\ writer' = loopWrites(user_data', writer)
         /\ event' = ev
    /\ cyc' = [cyc EXCEPT !.seen = @ \cup {"Other"}]
    /\ nEvents' = nEvents + 1
    /\ UNCHANGED <<fmt, proc, pc, dirty, prevMem, lastLoad, session>>

\* PDRead_get_event returns 0: drawUI runs with the fields holding a text of
\* addressTexts and one of sizeTexts, the request is written and update
\* returns.
UpdateFinish(addressTexts, sizeTexts) ==
    /\ pc = "loop"
    /\ Running
    /\ \E addressText \in addressTexts, sizeText \in sizeTexts :
         /\ user_data' = drawUI(user_data, addressText, sizeText)
         /\ cyc' = [cyc EXCEPT !.textChanged =
                       \/ dirty
                       \/ addressText # user_data.startAddress
                       \/ sizeText # user_data.sizeText,
                                !.edited =
                       \/ addressText # user_data.startAddress
                       \/ sizeText # user_data.sizeText]
    /\ writer' = writeRequest(user_data', writer)
    /\ pc' = "idle"
    /\ event' = NoEvent
    /\ dirty' = FALSE
    /\ UNCHANGED <<fmt, proc, nEvents, prevMem, lastLoad, session>>

\* The host restores a session from a blob of blobs.
LoadState(blobs) ==
    /\ pc = "idle"
    /\ Running
    /\ \E blob \in blobs :
         /\ user_data' = loadState(user_data, blob)
         /\ lastLoad' = Len(blob)
         /\ dirty' = (dirty \/ user_data'.startAddress # user_data.startAddress
                            \/ user_data'.sizeText # user_data.sizeText)
    /\ UNCHANGED <<fmt, proc, pc, writer, nEvents, event, cyc, prevMem, session>>

\* The host saves the session.
SaveState ==
    /\ pc = "idle"
    /\ Running
    /\ session' = [saved |-> TRUE, blob |-> saveState(user_data),
                   startAddress |-> user_data.startAddress,
                   sizeText |-> user_data.sizeText]
    /\ UNCHANGED <<fmt, user_data, proc, pc, writer, nEvents, event, cyc, dirty,
                   prevMem, lastLoad>>

\* The host restores the session it saved last.
LoadSaved ==
    /\ session.saved
    /\ LoadState({session.blob})

\* --------------------------------------------------------- specifications

\* The fetch decisions of update: every text, every exception event, and
\* SetMemory events with few payloads.
NextFetch ==
    \/ UpdateBegin
    \/ ReadSetMemory(SetMemoryEvents(FewPayloads))
    \/ ReadSetExceptionLocation
    \/ ReadOtherEvent
    \/ UpdateFinish(Texts, Texts)

SpecFetch == Init /\ [][NextFetch]_vars

\* The two buffers: every payload, with the text fields left alone.
NextBuffer ==
    \/ UpdateBegin
    \/ ReadSetMemory(SetMemoryEvents(Payloads))
    \/ UpdateFinish({DefaultStartAddress}, {DefaultSizeText})

SpecBuffer == Init /\ [][NextBuffer]_vars

\* Session restore: every blob, between update calls without SetMemory events.
NextSession ==
    \/ UpdateBegin
    \/ ReadSetExceptionLocation
    \/ UpdateFinish(Texts, Texts)
    \/ LoadState(Blobs)

SpecSession == Init /\ [][NextSession]_vars

\* Save and restore: the texts change in update calls, the session is
\* saved, and the saved blob is loaded back later.
NextPersist ==
    \/ UpdateBegin
    \/ UpdateFinish(Texts, Texts)
    \/ SaveState
    \/ LoadSaved

SpecPersist == Init /\ [][NextPersist]_vars

\* Requested sizes: size texts below and above what a buffer holds.
\* drawData, line 75: the address of the first line is parsed from the text.
DrawDataAddress ==
    /\ fmt.line = "start"
    /\ fmt' = [fmt EXCEPT !.line = "parsed",
                          !.address = strtol16(user_data.startAddress)]
    /\ UNCHANGED <<user_data, proc, pc, writer, nEvents, event, cyc, dirty,
                   prevMem, lastLoad, session>>

\* drawData, line 87: the address line is formatted for the instance's
\* address size.
DrawDataAddressLine ==
    /\ fmt.line = "parsed"
    /\ fmt' = [fmt EXCEPT !.line = "formatted",
                          !.addressText = getAddressLine(fmt.address,
                                                         user_data.addressSize)]
    /\ UNCHANGED <<user_data, proc, pc, writer, nEvents, event, cyc, dirty,
                   prevMem, lastLoad, session>>

\* The formatted address line is parsed as an address text is.
ReparseAddressLine ==
    /\ fmt.line = "formatted"
    /\ fmt' = [fmt EXCEPT !.line = "reparsed",
                          !.again = strtol16(fmt.addressText)]
    /\ UNCHANGED <<user_data, proc, pc, writer, nEvents, event, cyc, dirty,
                   prevMem, lastLoad, session>>

\* An instance holding any of the address texts, with any address size,
\* about to draw its data.
InitFormat ==
    /\ \E t \in HexStrings, z \in AddressSizes :
          user_data = [createInstance EXCEPT !.startAddress = t, !.addressSize = z]
    /\ proc = "running"
    /\ pc = "idle"
    /\ writer = <<>>
    /\ nEvents = 0
    /\ event = NoEvent
    /\ cyc = [ran |-> FALSE, first |-> FALSE, sa0 |-> 0, size0 |-> DefaultSize,
              textChanged |-> FALSE, newException |-> FALSE,
              memAddress |-> NoAddress,
              loaded |-> FALSE, edited |-> FALSE, seen |-> {}]
    /\ dirty = TRUE
    /\ prevMem = NoEvent
    /\ lastLoad = NoLoad
    /\ session = NoSession
    /\ fmt = [NoFormat EXCEPT !.line = "start"]

NextFormat ==
    \/ DrawDataAddress
    \/ DrawDataAddressLine
    \/ ReparseAddressLine

SpecFormat == InitFormat /\ [][NextFormat]_vars

\* The restore specification: sessions of two address texts and two size
\* texts, whole or cut after the address, and SetMemory events carrying one
\* byte for either address.
RestoreAddressTexts == {DefaultStartAddress, <<"1", "0">>}

RestoreSizeTexts == {DefaultSizeText, <<"1", "0">>}

RestoreBlobs ==
    {<<a, z>> : a \in RestoreAddressTexts, z \in RestoreSizeTexts}
    \cup {<<a>> : a \in RestoreAddressTexts}

RestoreEvents ==
    {[type |-> "SetMemory", hasAddress |-> TRUE, address |-> a,
      hasData |-> TRUE, data |-> <<16>>] : a \in EventAddresses}

NextRestore ==
    \/ UpdateBegin
    \/ ReadSetMemory(RestoreEvents)
    \/ ReadSetExceptionLocation
    \/ UpdateFinish(RestoreAddressTexts, RestoreSizeTexts)
    \/ LoadState(RestoreBlobs)

SpecRestore == Init /\ [][NextRestore]_vars

NextClamp ==
    \/ UpdateBegin
    \/ ReadSetExceptionLocation
    \/ UpdateFinish({DefaultStartAddress, <<"1", "0">>},
                    {DefaultSizeText, <<"1", "0">>, LargeSizeText})

SpecClamp == Init /\ [][NextClamp]_vars

\* ------------------------------------------------------------ properties

\* The values drawUI parses from the two text fields as they are now.
ParsedAddress == strtol16(user_data.startAddress)
ParsedSize == strtol16(user_data.sizeText)

\* An update call has returned and the text fields are as its drawUI read them.
CycleDone == pc = "idle" /\ cyc.ran /\ lastLoad = NoLoad

\* A text that is empty or starts with no hexadecimal digit.
Malformed(text) == Len(text) = 0 \/ text[1] \notin HexDigits

\* C1: an update call writes at most one event to the outbound stream, a
\* GetMemory event, and writes it only once the event loop has ended (the
\* stream is empty for as long as events are being read).
C1_AtMostOneRequestAfterDrain ==
    /\ Len(writer) <= 1
    /\ \A i \in 1..Len(writer) : writer[i].type = "GetMemory"
    /\ (writer # <<>> => pc = "idle")

\* C1 witness: a call that read a full batch, one of its events a new
\* exception location, has returned with its one request written.
C1_Witness ==
    /\ pc = "idle"
    /\ nEvents >= 2
    /\ cyc.newException
    /\ Len(writer) = 1

\* C2 as claimed: a cycle whose texts parse to values other than the ones
\* recorded when it began writes exactly one GetMemory carrying the parsed
\* values, and a cycle whose texts parse to the recorded values writes none.
C2_FetchTriggering_Original ==
    CycleDone =>
        /\ (ParsedAddress # cyc.sa0 \/ ParsedSize # cyc.size0)
              => writer = <<GetMemory(ParsedAddress, ParsedSize)>>
        /\ (ParsedAddress = cyc.sa0 /\ ParsedSize = cyc.size0)
              => writer = <<>>

\* C2 as amended: the first half holds unless the last SetMemory event with
\* data drained in the cycle carried the newly parsed address; the second
\* half holds unless the cycle drained a SetExceptionLocation event with a
\* new address or its last SetMemory event with data carried another
\* address than the one the text parses to.
C2_FetchTriggering ==
    CycleDone =>
        /\ ((ParsedAddress # cyc.sa0 \/ ParsedSize # cyc.size0)
             /\ cyc.memAddress # ParsedAddress)
              => writer = <<GetMemory(ParsedAddress, ParsedSize)>>
        /\ (ParsedAddress = cyc.sa0 /\ ParsedSize = cyc.size0
             /\ ~cyc.newException
             /\ cyc.memAddress \in {NoAddress, ParsedAddress})
              => writer = <<>>

\* C2 witness: a later cycle without events in which the address text was
\* changed from one parsing to 0 to "10", and the request for 0x10 written.
C2_Witness ==
    /\ CycleDone
    /\ ~cyc.first
    /\ nEvents = 0
    /\ cyc.sa0 = 0
    /\ cyc.size0 = 16
    /\ user_data.startAddress = <<"1", "0">>
    /\ writer = <<GetMemory(16, 16)>>

\* C3: right after a SetExceptionLocation event is handled the stored
\* exceptionLocation is the event's address, a new address has flagged the
\* request, and the cycle that drained an event with a new address ends with
\* exactly one GetMemory event written.
C3_ExceptionInvalidation ==
    /\ (pc = "loop" /\ event.type = "SetExceptionLocation")
          => /\ user_data.exceptionLocation = FindAddress(event)
             /\ (cyc.newException => user_data.requestData)
    /\ (CycleDone /\ cyc.newException)
          => (Len(writer) = 1 /\ writer[1].type = "GetMemory")

\* C3 witness: a cycle whose texts and recorded range did not change and
\* that drained no SetMemory data wrote a request for a new exception location.
C3_Witness ==
    /\ CycleDone
    /\ cyc.newException
    /\ ~cyc.textChanged
    /\ cyc.memAddress = NoAddress
    /\ user_data.sa = cyc.sa0
    /\ user_data.size = cyc.size0
    /\ user_data.exceptionLocation = 16
    /\ Len(writer) = 1

\* A step of the event loop that has handled a SetMemory event with data.
AppliesData == nEvents' = nEvents + 1 /\ event'.type = "SetMemory" /\ event'.hasData

\* The offsets at which the hex view colours a byte as changed.
DiffAt(d, o) == d.data[o] # d.oldData[o]

\* C4: handling a SetMemory event whose data is longer than the buffers
\* leaves both buffers as they were and the process running in a defined
\* state (the payload is rejected, nothing is written out of bounds).
C4_OverflowSafety ==
    [][(AppliesData /\ Len(event'.data) > Capacity)
          => /\ user_data'.data = user_data.data
             /\ user_data'.oldData = user_data.oldData
             /\ proc' = "running"]_vars

\* C5: handling a SetMemory event equal to the one whose data was copied
\* last leaves the current buffer as it was, and afterwards the current and
\* the previous buffer are equal at every offset.
C5_Idempotence ==
    [][(AppliesData /\ event' = prevMem)
          => /\ user_data'.data = user_data.data
             /\ \A o \in 1..Capacity : ~DiffAt(user_data', o)]_vars

\* C6: after the first payload copied into a new instance (one that fits the
\* buffers), the current and the previous buffer differ at exactly the
\* offsets inside the payload whose payload byte is not the fill value 0xff.
C6_FirstDiff ==
    [][(AppliesData /\ prevMem = NoEvent /\ Len(event'.data) <= Capacity)
          => \A o \in 1..Capacity :
                DiffAt(user_data', o)
                   <=> (o <= Len(event'.data) /\ event'.data[o] # FillByte)]_vars

\* C6 witness: the first event of the first cycle was a payload filling the
\* buffers, one of its bytes 0xff and another not; the buffers differ at
\* some offset and agree at another.
C6_Witness ==
    /\ pc = "loop"
    /\ cyc.first
    /\ nEvents = 1
    /\ event = prevMem
    /\ event.hasData
    /\ Len(event.data) = Capacity
    /\ \E o \in 1..Capacity : event.data[o] = FillByte /\ ~DiffAt(user_data, o)
    /\ \E o \in 1..Capacity : event.data[o] # FillByte /\ DiffAt(user_data, o)

\* C7 as claimed: a cycle writes a GetMemory event only if the text fields
\* were changed since drawUI last read them or the cycle drained a
\* SetExceptionLocation event with a new address.
C7_NoAutoRetry_Original ==
    (CycleDone /\ writer # <<>>) => (cyc.textChanged \/ cyc.newException)

\* C7 as amended: ... or the last SetMemory event with data drained in the
\* cycle carried an address other than the one the address text parses to.
C7_NoAutoRetry ==
    (CycleDone /\ writer # <<>>)
        => \/ cyc.textChanged
           \/ cyc.newException
           \/ (cyc.memAddress # NoAddress /\ cyc.memAddress # ParsedAddress)

\* C7 witness: with the texts unchanged and no new exception location, a
\* cycle that drained SetMemory data for another address wrote a request;
\* and a cycle that drained SetMemory data for the text's address wrote none.
C7_Witness ==
    /\ CycleDone
    /\ ~cyc.textChanged
    /\ ~cyc.newException
    /\ cyc.memAddress = 16
    /\ writer = <<GetMemory(0, 4132)>>

\* C8: in a cycle without inbound events, a malformed address text leaves
\* the recorded address as it was, a malformed size text leaves the recorded
\* size as it was, and with both malformed no GetMemory event is written.
C8_MalformedRetained ==
    (CycleDone /\ nEvents = 0)
        => /\ Malformed(user_data.startAddress) => user_data.sa = cyc.sa0
           /\ Malformed(user_data.sizeText) => user_data.size = cyc.size0
           /\ (Malformed(user_data.startAddress) /\ Malformed(user_data.sizeText))
                 => writer = <<>>

\* C9: the first update call on a new instance, with no inbound events and
\* the default texts left in the fields, writes exactly one GetMemory event,
\* for address 0 and size 1024.
C9_DefaultStartup ==
    (CycleDone /\ cyc.first /\ nEvents = 0
       /\ user_data.startAddress = DefaultStartAddress
       /\ user_data.sizeText = DefaultSizeText)
        => writer = <<GetMemory(0, DefaultSize)>>

\* C10: after loadState was given a truncated blob (fewer than two fields)
\* the text fields hold the documented defaults.
C10_TruncatedLoad ==
    lastLoad \in {0, 1}
        => /\ user_data.startAddress = DefaultStartAddress
           /\ user_data.sizeText = DefaultSizeText

\* C11: once loadState has read the blob saveState wrote, the address text
\* and the size text are the ones the instance held when it was saved, the
\* first field of the blob being the address text and the second the size text.
C11_PersistenceRoundTrip ==
    (session.saved /\ lastLoad # NoLoad)
        => /\ lastLoad = 2
           /\ user_data.startAddress = session.startAddress
           /\ user_data.sizeText = session.sizeText
           /\ session.blob = <<session.startAddress, session.sizeText>>

\* C11 witness: the session was saved with two different texts, the fields
\* were changed to other texts by a later update call, and the load brought
\* the saved texts back while the recorded range is still the later one.
C11_Witness ==
    /\ session.saved
    /\ lastLoad = 2
    /\ session.startAddress = <<"1", "0">>
    /\ session.sizeText = DefaultSizeText
    /\ user_data.startAddress = <<"1", "0">>
    /\ user_data.sizeText = DefaultSizeText
    /\ user_data.sa = 0
    /\ user_data.size = 0

\* C12: the recorded size and the size of every GetMemory event written are
\* at most the number of bytes a buffer holds.
C12_CapacityClamp ==
    /\ user_data.size <= AllocatedBytes
    /\ \A i \in 1..Len(writer) : writer[i].size <= AllocatedBytes

\* A step of the event loop that has handled an event of type t.
Handles(t) == nEvents' = nEvents + 1 /\ event'.type = t

\* C13: handling a SetMemory event whose data fits the buffers, whatever its
\* address, leaves the previous buffer equal to the whole current buffer as
\* it was, the start of the current buffer equal to the payload and the
\* rest of the current buffer as it was.
C13_ApplyIncoming ==
    [][(AppliesData /\ Len(event'.data) <= Capacity)
          => /\ user_data'.oldData = user_data.data
             /\ \A o \in 1..Capacity :
                   user_data'.data[o] = IF o <= Len(event'.data)
                                        THEN event'.data[o]
                                        ELSE user_data.data[o]]_vars

\* C14: handling a SetMemory event without a data field changes nothing of
\* the instance (both buffers, recorded address and size, exception
\* location, request flag) and writes nothing.
C14_NoDataNoOp ==
    [][(Handles("SetMemory") /\ ~event'.hasData)
          => /\ user_data' = user_data
             /\ writer' = writer
             /\ proc' = proc]_vars

\* C14 witness: a SetMemory event for address 0x10 without data was handled
\* while the recorded address is 0, a request is flagged and the buffers differ.
C14_Witness ==
    /\ pc = "loop"
    /\ event.type = "SetMemory"
    /\ ~event.hasData
    /\ event.hasAddress
    /\ event.address = 16
    /\ user_data.sa = 0
    /\ user_data.requestData
    /\ user_data.exceptionLocation = 16
    /\ user_data.data # user_data.oldData

\* C15: handling an event of a type other than SetMemory and
\* SetExceptionLocation changes nothing of the instance, writes nothing and
\* leaves update in its event loop, where the next event is read.
C15_UnknownIgnored ==
    [][Handles("Other")
          => /\ user_data' = user_data
             /\ writer' = writer
             /\ proc' = proc
             /\ pc' = "loop"]_vars

\* C15 witness: an event of another type was read while the stored
\* exception location was 0x10, and the SetExceptionLocation event after it
\* in the same batch was handled: it set the location back to 0 and flagged
\* the request.
C15_Witness ==
    /\ pc = "loop"
    /\ nEvents = 2
    /\ "Other" \in cyc.seen
    /\ event.type = "SetExceptionLocation"
    /\ event.hasAddress
    /\ cyc.newException
    /\ user_data.exceptionLocation = 0
    /\ user_data.requestData

\* C16: handling a SetMemory or SetExceptionLocation event without an
\* address field leaves the recorded address, the exception location and
\* the request flag as they were, and update goes on with its event loop.
C16_MalformedSkipped ==
    [][((Handles("SetMemory") \/ Handles("SetExceptionLocation"))
          /\ ~event'.hasAddress)
          => /\ user_data'.sa = user_data.sa
             /\ user_data'.exceptionLocation = user_data.exceptionLocation
             /\ user_data'.requestData = user_data.requestData
             /\ pc' = "loop"]_vars

\* C17: for every address text made of hexadecimal digits and every address
\* size of 1, 2, 4 and 8, parsing the line that getAddressLine formats from
\* the parsed address gives the parsed address again.
C17_RoundTrip ==
    fmt.line = "reparsed" => fmt.again = fmt.address

\* C18: handling a SetExceptionLocation event whose address equals the
\* stored exception location changes nothing of the instance and writes
\* nothing; and an update call that drained only such events, with the text
\* fields unchanged since drawUI last read them, returns with no event written.
C18_SameExceptionLocation ==
    [][/\ (Handles("SetExceptionLocation")
            /\ FindAddress(event') = user_data.exceptionLocation)
          => /\ user_data' = user_data
             /\ writer' = writer
             /\ proc' = proc
       /\ (pc = "loop" /\ pc' = "idle"
            /\ cyc'.seen = {"SameException"}
            /\ ~cyc'.newException
            /\ cyc'.memAddress = NoAddress
            /\ ~cyc'.textChanged)
          => writer' = <<>>]_vars

\* C18 witness: an update call with the text fields unchanged drained two
\* SetExceptionLocation events for the stored location 0 and nothing else,
\* and returned with no event written.
C18_Witness ==
    /\ CycleDone
    /\ ~cyc.first
    /\ nEvents = 2
    /\ cyc.seen = {"SameException"}
    /\ ~cyc.newException
    /\ cyc.memAddress = NoAddress
    /\ ~cyc.textChanged
    /\ user_data.exceptionLocation = 0
    /\ ~user_data.requestData
    /\ writer = <<>>

\* C19: when an update call has returned, whatever it drained, the recorded
\* address and size are the values the address and size texts parse to,
\* and every GetMemory event it wrote carries exactly these two values.
C19_BaselineInvariant ==
    CycleDone
        => /\ user_data.sa = ParsedAddress
           /\ user_data.size = ParsedSize
           /\ \A i \in 1..Len(writer) :
                 writer[i] = GetMemory(ParsedAddress, ParsedSize)

\* C19 witness: an update call that copied SetMemory data for address 0x10
\* while the address text says 0 and the size text was changed to "10" has
\* returned with the request for the text's range written.
C19_Witness ==
    /\ CycleDone
    /\ cyc.memAddress = 16
    /\ cyc.sa0 = 0
    /\ user_data.startAddress = DefaultStartAddress
    /\ user_data.sizeText = <<"1", "0">>
    /\ user_data.sa = 0
    /\ writer = <<GetMemory(0, 16)>>

\* A loadState call.
Restores == pc = "idle" /\ pc' = "idle" /\ lastLoad' # NoLoad

\* loadState changes nothing of the instance but the two text fields, and
\* writes nothing.
RestoreFrame ==
    Restores
        => /\ user_data' = [user_data EXCEPT
                                !.startAddress = user_data'.startAddress,
                                !.sizeText = user_data'.sizeText]
           /\ writer' = writer
           /\ proc' = proc

\* The end of the first update call after a loadState call, its drawUI
\* finding the restored texts in the fields.
FinishesRestored == pc = "loop" /\ pc' = "idle" /\ cyc.loaded /\ ~cyc'.edited

\* C20 as claimed: loadState changes the two text fields only; and the first
\* update call after it writes exactly one GetMemory event, for the range
\* the restored texts parse to, if that range differs from the range
\* recorded when the call began, and writes nothing otherwise.
C20_RestoreTriggersFetch_Original ==
    [][/\ RestoreFrame
       /\ FinishesRestored
          => writer' = IF \/ ParsedAddress # cyc.sa0
                          \/ ParsedSize # cyc.size0
                       THEN <<GetMemory(ParsedAddress, ParsedSize)>>
                       ELSE <<>>]_vars

\* C20 as amended: ... writes exactly one GetMemory event for the restored
\* range if the restored size differs from the recorded size, or the
\* restored address differs from the recorded address, which is the address
\* of the last SetMemory event with data drained in the call if there was
\* one, or the call drained a SetExceptionLocation event with a new address;
\* and writes nothing otherwise.
C20_RestoreTriggersFetch ==
    [][/\ RestoreFrame
       /\ FinishesRestored
          => LET recorded == IF cyc.memAddress # NoAddress
                             THEN cyc.memAddress
                             ELSE cyc.sa0
             IN  writer' = IF \/ ParsedAddress # recorded
                              \/ ParsedSize # cyc.size0
                              \/ cyc.newException
                           THEN <<GetMemory(ParsedAddress, ParsedSize)>>
                           ELSE <<>>]_vars

\* C20 witness: a session with the address text "10" was restored into an
\* instance whose recorded address was 0, and the next update call, draining
\* nothing, wrote the request for 0x10.
C20_Witness ==
    /\ CycleDone
    /\ ~cyc.first
    /\ cyc.loaded
    /\ ~cyc.edited
    /\ nEvents = 0
    /\ cyc.sa0 = 0
    /\ cyc.size0 = 4132
    /\ user_data.startAddress = <<"1", "0">>
    /\ user_data.sizeText = DefaultSizeText
    /\ writer = <<GetMemory(16, 4132)>>

====
